---- MODULE Spec2Model ----
(***************************************************************************)
(* NetworkManager kill switch (protonvpn/killswitch/nmkillswitch.py).      *)
(*                                                                         *)
(* The platform holds two dummy connections, pvpn-killswitch (Blocking)    *)
(* and pvpn-routed-killswitch (Routed).  NMKillSwitch keeps a tracker      *)
(* {EXISTS, IS_RUNNING} per connection, refreshed from the platform, and   *)
(* drives the platform through nmcli (add, delete) and D-Bus (activate,    *)
(* deactivate).  Every adapter call is one step of a caller; the calls a   *)
(* method still has to make are kept on the caller's control stack.        *)
(***************************************************************************)
EXTENDS Integers, Sequences, FiniteSets, TLC

VARIABLES
    plat,                     \* platform: connection name -> "absent" | "inactive" | "active"
    routed,                   \* what the platform's Routed connection was built from
    probe,                    \* NetworkManager ConnectivityCheckAvailable / ConnectivityCheckEnabled
    interface_state_tracker,  \* NMKillSwitch._interface_state_tracker (shared by all callers)
    th,                       \* per caller: control stack and the locals of the running method
    gh,                       \* per caller: history of the running action (call log, start state)
    pristine,                 \* history: started at rest, only the four actions, all returned normally
    ext,                      \* number of external changes made to the platform so far
    mode,                     \* the mode controller (interface/killswitch.py) and its last call
    legacy,                   \* the on/off/permanent controller (killswitch.py) and its last call
    nm                        \* NetworkManager's connection list as the tracker refresh reads it

vars == <<plat, routed, probe, interface_state_tracker, th, gh, pristine, ext, mode, legacy, nm>>

----------------------------------------------------------------------------
(* Bounds *)

MaxExternal == 1

\* number of connections NetworkManager lists at most
MaxConnections == 2

\* width of an address in bits (32 for IPv4)
AddrBits == 4

----------------------------------------------------------------------------
(* Program constants *)

KILLSWITCH_CONN_NAME == "pvpn-killswitch"
ROUTED_CONN_NAME == "pvpn-routed-killswitch"
Conns == {KILLSWITCH_CONN_NAME, ROUTED_CONN_NAME}

PRE_CONNECTION == "pre_connection"
POST_CONNECTION == "post_connection"
SOFT == "soft_connection"
DISABLE == "disable"
KillSwitchActionEnum == {PRE_CONNECTION, POST_CONNECTION, SOFT, DISABLE}

\* a network of the ipaddress module: network address and prefix length
Network(base, len) == [base |-> base, len |-> len]
NumAddresses(n) == 2 ^ (AddrBits - n.len)
Addresses(n) == n.base .. (n.base + NumAddresses(n) - 1)

\* ip_network('0.0.0.0/0')
Whole == Network(0, 0)

\* the server_ip argument: the text "<address>/<prefix>" (a bare address has the
\* full prefix), a text that is no address at all, or None
Cidr(base, len) == [text |-> "cidr", base |-> base, len |-> len]
Host(a) == Cidr(a, AddrBits)
Malformed == [text |-> "malformed", base |-> 0, len |-> 0]
NoServerIp == [text |-> "None", base |-> 0, len |-> 0]

\* the server addresses handed to PreConnection
ServerIps == {Host(5), Host(10)}

\* every text PreConnection can be handed
ServerArgs ==
    {Cidr(b, l) : b \in 0 .. (2 ^ AddrBits - 1), l \in 0 .. AddrBits} \cup {Malformed}

\* exit codes of the nmcli subprocess: 0 success, 2 invalid input, 10 "connection,
\* device, or access point does not exist", 1 standing for every other failure
ReturnCodes == {0, 1, 2, 10}

Callers == {1, 2}

NoRouted == [server |-> NoServerIp, strategy |-> "none", ranges |-> <<>>]

----------------------------------------------------------------------------
(* Route planning: ip_network('0.0.0.0/0').address_exclude(ip_network(server_ip)) *)

\* ip_network(server_ip), strict: a text that is no address, or an address with
\* host bits set under its prefix, raises ValueError
HostBitsSet(s) == s.base % (2 ^ (AddrBits - s.len)) # 0
IpNetworkAccepts(s) == s.text = "cidr" /\ ~HostBitsSet(s)
ip_network(s) == Network(s.base, s.len)

\* a.subnet_of(b)
subnet_of(a, b) ==
    /\ b.len <= a.len
    /\ b.base <= a.base
    /\ a.base + NumAddresses(a) <= b.base + NumAddresses(b)

\* n.subnets(): the two halves of n
subnets(n) ==
    <<Network(n.base, n.len + 1),
      Network(n.base + 2 ^ (AddrBits - n.len - 1), n.len + 1)>>

\* of the two halves, the one address_exclude yields and the one it goes on with
YieldedContaining(s1, s2, other) == IF subnet_of(other, s1) THEN s1 ELSE s2
Yielded(s1, s2, other) == IF subnet_of(other, s1) THEN s2 ELSE s1
Descended(s1, s2, other) == IF subnet_of(other, s1) THEN s1 ELSE s2

\* the loop of address_exclude over the halves s1, s2 of the network that holds other
RECURSIVE ExcludeLoop(_, _, _)
ExcludeLoop(s1, s2, other) ==
    <<Yielded(s1, s2, other)>>
    \o (IF s1 = other \/ s2 = other THEN <<>>
        ELSE LET d == Descended(s1, s2, other)
             IN ExcludeLoop(subnets(d)[1], subnets(d)[2], other))

\* self.address_exclude(other), other a subnet of self
address_exclude(self, other) ==
    IF other = self THEN <<>>
    ELSE ExcludeLoop(subnets(self)[1], subnets(self)[2], other)

\* subnet_list of _create_routed_connection
SubnetList(server_ip) == address_exclude(Whole, ip_network(server_ip))

\* route_data of _create_routed_connection, for every text ip_network accepts
RouteData == [s \in {x \in ServerArgs : IpNetworkAccepts(x)} |-> SubnetList(s)]

\* the Routed connection nmcli adds from a command built for server_ip, with
\* route_data as its routes or addresses
Built(server_ip, strategy, route_data) ==
    [server |-> server_ip, strategy |-> strategy, ranges |-> route_data]

----------------------------------------------------------------------------
(* Control stack *)

I(op, conn) == <<op, conn>>
UPDATE == I("update_connection_status", "")

Running(t) == th[t].stack # <<>>
Top(t) == Head(th[t].stack)
Rest(t) == Tail(th[t].stack)
At(t, op) == Running(t) /\ Top(t)[1] = op

RECURSIVE HasHandler(_)
HasHandler(s) ==
    IF s = <<>> THEN FALSE
    ELSE IF Head(s)[1] = "end_try" THEN TRUE
    ELSE HasHandler(Tail(s))

RECURSIVE Unwind(_)
Unwind(s) ==
    IF s = <<>> THEN <<>>
    ELSE IF Head(s)[1] = "end_try" THEN Tail(s)
    ELSE Unwind(Tail(s))

\* an exception raised by caller t with `rest` left on its stack
Raised(t, rest, err) ==
    IF HasHandler(rest)
    THEN [th EXCEPT ![t].stack = Unwind(rest)]
    ELSE [th EXCEPT ![t].stack = <<>>, ![t].result = err]

----------------------------------------------------------------------------
(* History *)

\* a step without adapter call, an adapter call, a construct-mutating adapter call
Stepped(t) == [gh EXCEPT ![t].nsteps = @ + 1]
Called(t) == [gh EXCEPT ![t].nsteps = @ + 1, ![t].ncalls = @ + 1]
Logged(t, op, conn) ==
    [gh EXCEPT ![t].nsteps = @ + 1, ![t].ncalls = @ + 1,
               ![t].log = Append(@, <<op, conn>>)]

\* a value written to ConnectivityCheckEnabled
Wrote(h, t, v) == [h EXCEPT ![t].writes = Append(@, v)]
\* a command submitted to nmcli to add Routed, and its exit code
Submitted(h, t, strategy, ranges, rc) ==
    [h EXCEPT ![t].submitted =
                Append(@, [strategy |-> strategy, ranges |-> ranges, rc |-> rc])]
\* the first adapter call of the action that failed
FailedCall(h, t, op, conn) ==
    [h EXCEPT ![t].failure = IF @ = <<>> THEN <<op, conn>> ELSE @]

\* the history of an action that starts now; stale tells whether the tracker left
\* behind by earlier actions differs from the platform, repeated whether the action
\* is run again right after it returned normally on an undisturbed platform
FreshHistory ==
    [log |-> <<>>, nsteps |-> 0, ncalls |-> 0, probeDone |-> FALSE, start |-> plat,
     startRouted |-> routed, disturbed |-> FALSE, startProbe |-> probe,
     writes |-> <<>>, submitted |-> <<>>, failure |-> <<>>,
     stale |-> \E c \in Conns :
                 \/ interface_state_tracker[c].EXISTS # (plat[c] # "absent")
                 \/ interface_state_tracker[c].IS_RUNNING # (plat[c] = "active"),
     repeated |-> FALSE]

----------------------------------------------------------------------------
(* The tracker and the guards the methods evaluate on it *)

\* _update_connection_status: both entries are reset, then EXISTS is set for every
\* connection whose id is a tracked name and IS_RUNNING for every active one
Observed(p) ==
    [c \in Conns |-> [EXISTS |-> p[c] # "absent", IS_RUNNING |-> p[c] = "active"]]

EmptyTracker == [c \in Conns |-> [EXISTS |-> FALSE, IS_RUNNING |-> FALSE]]

\* pre_attempts >= 5 / post_attempts >= 5
MaxAttempts == 5
AttemptsExceededOffByOne(n) == n > MaxAttempts
AttemptsExceeded(n) == n >= MaxAttempts

\* pre_attempts += 1 / post_attempts += 1
NextAttemptForgotten(n) == n
NextAttempt(n) == n + 1

\* _setup_pre_connection_ks
PreHappyPath(tr) ==
    tr[KILLSWITCH_CONN_NAME].IS_RUNNING /\ ~tr[ROUTED_CONN_NAME].EXISTS
PreConverged(tr) ==
    ~tr[KILLSWITCH_CONN_NAME].IS_RUNNING /\ tr[ROUTED_CONN_NAME].IS_RUNNING
PreStaleRouted(tr) ==
    tr[ROUTED_CONN_NAME].EXISTS /\ tr[ROUTED_CONN_NAME].IS_RUNNING

\* _setup_post_connection_ks
PostHappyPath(tr) ==
    ~tr[KILLSWITCH_CONN_NAME].IS_RUNNING /\ tr[ROUTED_CONN_NAME].IS_RUNNING
PostSoftPath(tr, activating_soft_connection) ==
    /\ activating_soft_connection
    /\ (~tr[ROUTED_CONN_NAME].IS_RUNNING \/ ~tr[ROUTED_CONN_NAME].EXISTS)
PostConvergedWithoutBlocking(tr) ==
    ~tr[ROUTED_CONN_NAME].EXISTS \/ ~tr[ROUTED_CONN_NAME].IS_RUNNING
PostConverged(tr) ==
    /\ tr[KILLSWITCH_CONN_NAME].IS_RUNNING
    /\ (~tr[ROUTED_CONN_NAME].EXISTS \/ ~tr[ROUTED_CONN_NAME].IS_RUNNING)

\* the guards of the four primitives
CreateGuard(tr, c) == ~tr[c].EXISTS
ActivateGuard(tr, c, conn_dict) == tr[c].EXISTS /\ ~tr[c].IS_RUNNING /\ conn_dict
DeactivateGuardInverted(tr, c, active_conn_dict) ==
    ~tr[c].IS_RUNNING /\ active_conn_dict
DeactivateGuard(tr, c, active_conn_dict) == tr[c].IS_RUNNING /\ active_conn_dict
DeleteGuardInverted(tr, c) == ~tr[c].EXISTS
DeleteGuard(tr, c) == tr[c].EXISTS

\* _run_subprocess raises unless the exit code is 0 or 10
SubprocessOkAlways(rc) == TRUE
SubprocessOk(rc) == rc = 0 \/ rc = 10

\* the except clause of _create_routed_connection
RetryWithAddresses(rc, try_route_addrs) == rc = 2 /\ ~try_route_addrs

\* nm_wrapper.search_for_connection(conn_name): a connection with exactly this id
SearchForConnection(p, c, is_active) ==
    IF is_active THEN p[c] = "active" ELSE p[c] # "absent"

----------------------------------------------------------------------------
(* Mode controllers: KillSwitchStateEnum, connection states, backend hooks *)

OFF == "OFF"
ON_NON_PERMANENT == "ON_NON_PERMANENT"
ON_PERMANENT == "ON_PERMANENT"
ON == "ON"
KillSwitchStateEnum == {OFF, ON_NON_PERMANENT, ON_PERMANENT}
LegacyStateEnum == {OFF, ON}

\* a value that is no member of KillSwitchStateEnum (RandomEnum.RANDOM in the tests)
RANDOM == "RANDOM"

\* proton.vpn.connection.states
ConnectionStates == {"Disconnected", "Connecting", "Connected", "Error", "Disconnecting"}

\* a backend hook either returns or raises the error its docstring announces
HookOutcomes == {"ok", "KillSwitchError"}
Outcomes(hooks) == IF hooks = <<>> THEN {"ok"} ELSE HookOutcomes

\* no controller object has been constructed yet
NoKillSwitch ==
    [state |-> "unconstructed", op |-> "none", arg |-> "none", before |-> "unconstructed",
     hooks |-> <<>>, last |-> "none", result |-> "none", status |-> "none",
     connecting |-> FALSE, raised |-> FALSE]
NoLegacyKillSwitch ==
    [state |-> "unconstructed", permanent |-> FALSE, op |-> "none", arg |-> "none",
     before |-> "unconstructed", was_permanent |-> FALSE, hooks |-> <<>>,
     result |-> "none"]

----------------------------------------------------------------------------
(* Construction *)

IdleCaller ==
    [stack |-> <<>>, result |-> "none", action |-> "none", entry |-> "none",
     server_ip |-> NoServerIp, pre_attempts |-> 0, post_attempts |-> 0,
     activating_soft_connection |-> FALSE, try_route_addrs |-> FALSE,
     route_data |-> <<>>]

Init ==
    /\ plat \in [Conns -> {"absent", "inactive", "active"}]
    /\ routed \in
         IF plat[ROUTED_CONN_NAME] = "absent" THEN {NoRouted}
         ELSE {Built(s, "routes", RouteData[s]) : s \in ServerIps}
    /\ probe \in [available : BOOLEAN, enabled : BOOLEAN]
    /\ interface_state_tracker = EmptyTracker
    /\ th = [t \in Callers |-> IdleCaller]
    /\ gh = [t \in Callers |-> FreshHistory]
    /\ pristine = (\A c \in Conns : plat[c] = "absent")
    /\ ext = 0
    /\ mode = NoKillSwitch
    /\ legacy = NoLegacyKillSwitch
    /\ nm = [conns |-> {}, refreshed |-> FALSE]

----------------------------------------------------------------------------
(* Continuations *)

\* leaving a try block normally drops its marker
RECURSIVE Strip(_)
Strip(s) ==
    IF s # <<>> /\ Head(s)[1] = "end_try" THEN Strip(Tail(s)) ELSE s

\* caller t goes on with stack s; with nothing left the public method returns
Cont(t, s) ==
    [th EXCEPT ![t].stack = Strip(s),
               ![t].result = IF Strip(s) = <<>> THEN "ok" ELSE "running"]

Ended(r) == r \notin {"none", "running"}
Failed(r) == r \notin {"none", "running", "ok"}

\* the history flag falls when an exception reaches the caller of a public method
TrackPristine == pristine' = (pristine /\ \A t \in Callers : ~Failed(th'[t].result))

----------------------------------------------------------------------------
(* Public entry points *)

ENSURE == I("connectivity_check", "")
PRE == I("setup_pre_connection_ks", "")
POST == I("setup_post_connection_ks", "")
CREATE_KS == I("create_killswitch_connection", "")
DisableBody ==
    <<UPDATE, I("delete_connection", KILLSWITCH_CONN_NAME),
      UPDATE, I("delete_connection", ROUTED_CONN_NAME)>>
SoftBody == <<UPDATE, CREATE_KS, UPDATE, POST>>

\* actions_dict[action](server_ip)
ManageBody(a) ==
    CASE a = PRE_CONNECTION -> <<UPDATE, PRE>>
      [] a = POST_CONNECTION -> <<UPDATE, POST>>
      [] a = SOFT -> <<I("setup_soft_connection_call", "")>>
      [] a = DISABLE -> DisableBody

Invoke(t, entry, a, s, soft, body) ==
    /\ ~Running(t)
    /\ th' = [th EXCEPT ![t] =
                [stack |-> body, result |-> "running", action |-> a, entry |-> entry,
                 server_ip |-> s, pre_attempts |-> 0, post_attempts |-> 0,
                 activating_soft_connection |-> soft, try_route_addrs |-> FALSE,
                 route_data |-> <<>>]]
    /\ gh' = [gh EXCEPT ![t] =
                [FreshHistory EXCEPT !.repeated =
                   /\ th[t].result = "ok"
                   /\ ~gh[t].disturbed
                   /\ th[t].entry = entry /\ th[t].action = a /\ th[t].server_ip = s]]
    /\ UNCHANGED <<plat, routed, probe, interface_state_tracker, ext, mode, legacy, nm>>

\* _manage(action, server_ip)
Manage(t) ==
    \E a \in KillSwitchActionEnum :
      \E s \in (IF a = PRE_CONNECTION THEN ServerIps ELSE {NoServerIp}) :
        /\ Invoke(t, "_manage", a, s, FALSE, <<ENSURE, UPDATE>> \o ManageBody(a))
        /\ UNCHANGED pristine

\* _manage(PRE_CONNECTION, server_ip) with whatever text the caller hands over
ManagePreConnection(t) ==
    \E s \in ServerArgs :
      /\ Invoke(t, "_manage", PRE_CONNECTION, s, FALSE,
                <<ENSURE, UPDATE>> \o ManageBody(PRE_CONNECTION))
      /\ UNCHANGED pristine

\* enable(permanent=True) as it would be with the guard inside the try block
EnablePermanentGuardInTry(t) ==
    /\ Invoke(t, "enable", "enable_permanent", NoServerIp, FALSE,
              <<ENSURE, UPDATE, UPDATE, I("delete_connection", ROUTED_CONN_NAME),
                I("end_try", ""), I("enable_check", "")>>)
    /\ pristine' = FALSE

\* enable(permanent=True)
EnablePermanent(t) ==
    /\ Invoke(t, "enable", "enable_permanent", NoServerIp, FALSE,
              <<ENSURE, UPDATE, I("enable_try", ""), I("enable_check", "")>>)
    /\ pristine' = FALSE

\* enable(permanent=False): _setup_soft_connection()
EnableSoft(t) ==
    /\ Invoke(t, "enable", SOFT, NoServerIp, TRUE, SoftBody)
    /\ UNCHANGED pristine

\* disable()
Disable(t) ==
    /\ Invoke(t, "disable", DISABLE, NoServerIp, FALSE, <<ENSURE, UPDATE>> \o DisableBody)
    /\ UNCHANGED pristine

\* is_active(): the tracker entry of Blocking as the last refresh left it
is_active ==
    IF interface_state_tracker[KILLSWITCH_CONN_NAME].EXISTS
    THEN (IF interface_state_tracker[KILLSWITCH_CONN_NAME].IS_RUNNING THEN TRUE
          ELSE FALSE)
    ELSE FALSE

----------------------------------------------------------------------------
(* Connectivity-check guard *)

\* _connectivity_check: read the flags
ConnectivityCheck(t) ==
    /\ At(t, "connectivity_check")
    /\ th' = IF ~probe.enabled THEN Cont(t, Rest(t))
             ELSE IF ~probe.available
                  THEN Raised(t, Rest(t), "AvailableConnectivityCheckError")
                  ELSE Cont(t, <<I("disable_connectivity_check", "")>> \o Rest(t))
    /\ gh' = [Called(t) EXCEPT ![t].probeDone = ~probe.enabled]
    /\ TrackPristine
    /\ UNCHANGED <<plat, routed, probe, interface_state_tracker, ext, mode, legacy, nm>>

\* the value _disable_connectivity_check hands to Set
WrittenValueRestoring == TRUE
WrittenValue == FALSE

\* the re-read of _disable_connectivity_check: raise if still enabled
StillEnabledIgnored(p) == FALSE
StillEnabled(p) == p.enabled

\* _disable_connectivity_check: Set(ConnectivityCheckEnabled, False); the platform
\* may or may not honour the write
DisableConnectivityCheck(t) ==
    /\ At(t, "disable_connectivity_check")
    /\ \E honoured \in BOOLEAN :
         probe' = [probe EXCEPT !.enabled = IF honoured THEN WrittenValue ELSE @]
    /\ th' = Cont(t, <<I("verify_connectivity_check", "")>> \o Rest(t))
    /\ gh' = Wrote(Called(t), t, WrittenValue)
    /\ UNCHANGED <<plat, routed, interface_state_tracker, pristine, ext, mode, legacy, nm>>

\* _disable_connectivity_check: read back
VerifyConnectivityCheck(t) ==
    /\ At(t, "verify_connectivity_check")
    /\ th' = IF StillEnabled(probe)
             THEN Raised(t, Rest(t), "DisableConnectivityCheckError")
             ELSE Cont(t, Rest(t))
    /\ gh' = [Called(t) EXCEPT ![t].probeDone = ~probe.enabled]
    /\ TrackPristine
    /\ UNCHANGED <<plat, routed, probe, interface_state_tracker, ext, mode, legacy, nm>>

----------------------------------------------------------------------------
(* Interface state tracker *)

UpdateConnectionStatusPatching(t) ==
    /\ At(t, "update_connection_status")
    /\ interface_state_tracker' =
         [c \in Conns |->
            [EXISTS |-> interface_state_tracker[c].EXISTS \/ Observed(plat)[c].EXISTS,
             IS_RUNNING |-> \/ interface_state_tracker[c].IS_RUNNING
                            \/ Observed(plat)[c].IS_RUNNING]]
    /\ th' = Cont(t, Rest(t))
    /\ gh' = Called(t)
    /\ UNCHANGED <<plat, routed, probe, pristine, ext, mode, legacy, nm>>

UpdateConnectionStatus(t) ==
    /\ At(t, "update_connection_status")
    /\ interface_state_tracker' = Observed(plat)
    /\ th' = Cont(t, Rest(t))
    /\ gh' = Called(t)
    /\ UNCHANGED <<plat, routed, probe, pristine, ext, mode, legacy, nm>>

----------------------------------------------------------------------------
(* The four primitives; each runs right after its own tracker refresh *)

Strategy(try_route_addrs) == IF try_route_addrs THEN "addresses" ELSE "routes"

CreateError(c) ==
    IF c = KILLSWITCH_CONN_NAME THEN "CreateBlockingKillswitchError"
    ELSE "CreateRoutedKillswitchError"

\* the exit codes nmcli can give for "c a" (add) and for "c delete"
AddCodes == ReturnCodes
DeleteCodes(p, c) == IF p[c] = "absent" THEN {10} ELSE ReturnCodes \ {10}

\* the history of caller t after nmcli was run to add c and exited with rc
CreateFailed(t, c, rc) ==
    rc # 0 /\ ~(c = ROUTED_CONN_NAME /\ RetryWithAddresses(rc, th[t].try_route_addrs))
CreateLogged(t, c, rc) ==
    IF CreateFailed(t, c, rc)
    THEN FailedCall(Logged(t, "create", c), t, "create", c)
    ELSE Logged(t, "create", c)
CreateHistory(t, c, rc) ==
    IF c = ROUTED_CONN_NAME
    THEN Submitted(CreateLogged(t, c, rc), t, Strategy(th[t].try_route_addrs),
                   th[t].route_data, rc)
    ELSE CreateLogged(t, c, rc)

\* _create_connection: nmcli c a type dummy ... (the profile autoconnects, so a
\* connection that was added is active)
CreateConnection(t) ==
    /\ At(t, "create_connection")
    /\ LET c == Top(t)[2] IN
       IF ~CreateGuard(interface_state_tracker, c)
       THEN /\ th' = Cont(t, Rest(t))
            /\ gh' = Stepped(t)
            /\ UNCHANGED <<plat, routed>>
       ELSE \E rc \in AddCodes :
            /\ plat' = IF rc = 0 THEN [plat EXCEPT ![c] = "active"] ELSE plat
            /\ routed' = IF rc = 0 /\ c = ROUTED_CONN_NAME
                         THEN Built(th[t].server_ip, Strategy(th[t].try_route_addrs),
                                    th[t].route_data)
                         ELSE routed
            /\ gh' = CreateHistory(t, c, rc)
            /\ th' = IF SubprocessOk(rc) THEN Cont(t, Rest(t))
                     ELSE IF c = ROUTED_CONN_NAME
                             /\ RetryWithAddresses(rc, th[t].try_route_addrs)
                          THEN [th EXCEPT
                                  ![t].stack = <<I("create_routed_connection", "")>>
                                               \o Rest(t),
                                  ![t].try_route_addrs = TRUE]
                          ELSE Raised(t, Rest(t), CreateError(c))
    /\ TrackPristine
    /\ UNCHANGED <<probe, interface_state_tracker, ext, mode, legacy, nm>>

\* what self._nm_wrapper._activate_connection(settings_path, device_path) can do:
\* NetworkManagerUnitWrapper has activate_connection and no _activate_connection
ActivateOutcomes == {"AttributeError"}

\* _activate_connection
ActivateConnection(t) ==
    /\ At(t, "activate_connection")
    /\ LET c == Top(t)[2]
           conn_dict == SearchForConnection(plat, c, FALSE)
       IN IF ~ActivateGuard(interface_state_tracker, c, conn_dict)
          THEN /\ th' = Cont(t, Rest(t))
               /\ gh' = Called(t)
               /\ UNCHANGED plat
          ELSE \E o \in ActivateOutcomes :
               /\ plat' = IF o = "active_conn" THEN [plat EXCEPT ![c] = "active"]
                          ELSE plat
               /\ gh' = IF o = "AttributeError"
                        THEN FailedCall(Called(t), t, "activate", c)
                        ELSE IF o = "active_conn" THEN Logged(t, "activate", c)
                        ELSE FailedCall(Logged(t, "activate", c), t, "activate", c)
               /\ th' = IF o = "active_conn" THEN Cont(t, Rest(t))
                        ELSE IF o = "AttributeError"
                             THEN Raised(t, Rest(t), "AttributeError")
                             ELSE Raised(t, Rest(t), "ActivateKillswitchError")
    /\ TrackPristine
    /\ UNCHANGED <<routed, probe, interface_state_tracker, ext, mode, legacy, nm>>

\* _deactivate_connection: DeactivateConnection succeeds or raises DBusException
DeactivateConnection(t) ==
    /\ At(t, "deactivate_connection")
    /\ LET c == Top(t)[2]
           active_conn_dict == SearchForConnection(plat, c, TRUE)
       IN IF ~DeactivateGuard(interface_state_tracker, c, active_conn_dict)
          THEN /\ th' = Cont(t, Rest(t))
               /\ gh' = Called(t)
               /\ UNCHANGED plat
          ELSE \E done \in BOOLEAN :
               /\ plat' = IF done THEN [plat EXCEPT ![c] = "inactive"] ELSE plat
               /\ gh' = IF done THEN Logged(t, "deactivate", c)
                        ELSE FailedCall(Logged(t, "deactivate", c), t, "deactivate", c)
               /\ th' = IF done THEN Cont(t, Rest(t))
                        ELSE Raised(t, Rest(t), "DectivateKillswitchError")
    /\ TrackPristine
    /\ UNCHANGED <<routed, probe, interface_state_tracker, ext, mode, legacy, nm>>

\* _delete_connection: nmcli c delete <name>
DeleteConnection(t) ==
    /\ At(t, "delete_connection")
    /\ LET c == Top(t)[2] IN
       IF ~DeleteGuard(interface_state_tracker, c)
       THEN /\ th' = Cont(t, Rest(t))
            /\ gh' = Stepped(t)
            /\ UNCHANGED <<plat, routed>>
       ELSE \E rc \in DeleteCodes(plat, c) :
            /\ plat' = IF rc = 0 THEN [plat EXCEPT ![c] = "absent"] ELSE plat
            /\ routed' = IF rc = 0 /\ c = ROUTED_CONN_NAME THEN NoRouted ELSE routed
            /\ gh' = IF rc = 0 \/ rc = 10 THEN Logged(t, "delete", c)
                     ELSE FailedCall(Logged(t, "delete", c), t, "delete", c)
            /\ th' = IF SubprocessOk(rc) THEN Cont(t, Rest(t))
                     ELSE Raised(t, Rest(t), "DeleteKillswitchError")
    /\ TrackPristine
    /\ UNCHANGED <<probe, interface_state_tracker, ext, mode, legacy, nm>>

----------------------------------------------------------------------------
(* Blocking and Routed creation *)

\* _create_killswitch_connection, after its refresh
CreateKillswitchConnection(t) ==
    /\ At(t, "create_killswitch_connection")
    /\ th' = IF CreateGuard(interface_state_tracker, KILLSWITCH_CONN_NAME)
             THEN Cont(t, <<UPDATE, I("create_connection", KILLSWITCH_CONN_NAME)>>
                          \o Rest(t))
             ELSE Cont(t, Rest(t))
    /\ gh' = Stepped(t)
    /\ UNCHANGED <<plat, routed, probe, interface_state_tracker, pristine, ext, mode, legacy, nm>>

\* _create_routed_connection: the complement of server_ip is computed (ip_network
\* raises ValueError on a text it does not accept), then _create_connection runs
CreateRoutedConnection(t) ==
    /\ At(t, "create_routed_connection")
    /\ th' = IF IpNetworkAccepts(th[t].server_ip)
             THEN [Cont(t, <<UPDATE, I("create_connection", ROUTED_CONN_NAME)>>
                           \o Rest(t))
                     EXCEPT ![t].route_data = RouteData[th[t].server_ip]]
             ELSE Raised(t, Rest(t), "ValueError")
    /\ TrackPristine
    /\ gh' = Stepped(t)
    /\ UNCHANGED <<plat, routed, probe, interface_state_tracker, ext, mode, legacy, nm>>

----------------------------------------------------------------------------
(* Convergence procedures; each branch step runs right after the refresh that
   opens the method *)

\* _setup_pre_connection_ks: cap, happy path, already converged, or correction
SetupPreConnectionKs(t) ==
    /\ At(t, "setup_pre_connection_ks")
    /\ LET tr == interface_state_tracker IN
       th' = IF AttemptsExceeded(th[t].pre_attempts)
             THEN Raised(t, Rest(t), "KillswitchError")
             ELSE IF PreHappyPath(tr)
             THEN Cont(t, <<I("create_routed_connection", ""),
                            UPDATE, I("deactivate_connection", KILLSWITCH_CONN_NAME)>>
                          \o Rest(t))
             ELSE IF PreConverged(tr)
             THEN Cont(t, Rest(t))
             ELSE Cont(t, (IF PreStaleRouted(tr)
                           THEN <<UPDATE, I("delete_connection", ROUTED_CONN_NAME)>>
                           ELSE <<>>)
                          \o <<I("pre_restore_blocking", "")>> \o Rest(t))
    /\ TrackPristine
    /\ gh' = Stepped(t)
    /\ UNCHANGED <<plat, routed, probe, interface_state_tracker, ext, mode, legacy, nm>>

\* _setup_pre_connection_ks: "check if ks exists. Start it if it does, if not then
\* create and start it"
PreRestoreBlocking(t) ==
    /\ At(t, "pre_restore_blocking")
    /\ th' = Cont(t, (IF interface_state_tracker[KILLSWITCH_CONN_NAME].EXISTS
                      THEN <<UPDATE, I("activate_connection", KILLSWITCH_CONN_NAME)>>
                      ELSE <<UPDATE, CREATE_KS>>)
                     \o <<I("pre_retry", "")>> \o Rest(t))
    /\ gh' = Stepped(t)
    /\ UNCHANGED <<plat, routed, probe, interface_state_tracker, pristine, ext, mode, legacy, nm>>

\* pre_attempts += 1; self._setup_pre_connection_ks(server_ip, pre_attempts)
PreRetry(t) ==
    /\ At(t, "pre_retry")
    /\ th' = [Cont(t, <<UPDATE, PRE>> \o Rest(t))
                EXCEPT ![t].pre_attempts = NextAttempt(@)]
    /\ gh' = Stepped(t)
    /\ UNCHANGED <<plat, routed, probe, interface_state_tracker, pristine, ext, mode, legacy, nm>>

\* _setup_post_connection_ks: cap, happy path, soft path, already converged, or
\* correction
SetupPostConnectionKs(t) ==
    /\ At(t, "setup_post_connection_ks")
    /\ LET tr == interface_state_tracker IN
       th' = IF AttemptsExceeded(th[t].post_attempts)
             THEN Raised(t, Rest(t), "KillswitchError")
             ELSE IF PostHappyPath(tr)
             THEN Cont(t, <<UPDATE, I("activate_connection", KILLSWITCH_CONN_NAME),
                            UPDATE, I("delete_connection", ROUTED_CONN_NAME)>>
                          \o Rest(t))
             ELSE IF PostSoftPath(tr, th[t].activating_soft_connection)
             THEN Cont(t, <<UPDATE, I("activate_connection", KILLSWITCH_CONN_NAME)>>
                          \o Rest(t))
             ELSE IF PostConverged(tr)
             THEN Cont(t, Rest(t))
             ELSE Cont(t, (IF tr[KILLSWITCH_CONN_NAME].IS_RUNNING
                           THEN <<UPDATE,
                                  I("deactivate_connection", KILLSWITCH_CONN_NAME)>>
                           ELSE <<>>)
                          \o <<I("post_restore_routed", "")>> \o Rest(t))
    /\ TrackPristine
    /\ gh' = Stepped(t)
    /\ UNCHANGED <<plat, routed, probe, interface_state_tracker, ext, mode, legacy, nm>>

\* _setup_post_connection_ks: "check if routed ks exists, if so then activate it
\* else raise exception"
PostRestoreRouted(t) ==
    /\ At(t, "post_restore_routed")
    /\ th' = IF interface_state_tracker[ROUTED_CONN_NAME].EXISTS
             THEN Cont(t, <<UPDATE, I("activate_connection", ROUTED_CONN_NAME),
                            I("post_retry", "")>> \o Rest(t))
             ELSE Raised(t, Rest(t), "Exception")
    /\ TrackPristine
    /\ gh' = Stepped(t)
    /\ UNCHANGED <<plat, routed, probe, interface_state_tracker, ext, mode, legacy, nm>>

\* post_attempts += 1; self._setup_post_connection_ks(_, post_attempts, ...)
PostRetry(t) ==
    /\ At(t, "post_retry")
    /\ th' = [Cont(t, <<UPDATE, POST>> \o Rest(t))
                EXCEPT ![t].post_attempts = NextAttempt(@)]
    /\ gh' = Stepped(t)
    /\ UNCHANGED <<plat, routed, probe, interface_state_tracker, pristine, ext, mode, legacy, nm>>

\* _manage with SOFT: self._setup_soft_connection(server_ip), a method that takes
\* no argument
SetupSoftConnectionCall(t) ==
    /\ At(t, "setup_soft_connection_call")
    /\ th' = Raised(t, Rest(t), "TypeError")
    /\ TrackPristine
    /\ gh' = Stepped(t)
    /\ UNCHANGED <<plat, routed, probe, interface_state_tracker, ext, mode, legacy, nm>>

\* enable(permanent=True): entering the try block around the deletion of Routed
EnableTry(t) ==
    /\ At(t, "enable_try")
    /\ th' = Cont(t, <<UPDATE, I("delete_connection", ROUTED_CONN_NAME),
                       I("end_try", "")>> \o Rest(t))
    /\ gh' = Stepped(t)
    /\ UNCHANGED <<plat, routed, probe, interface_state_tracker, pristine, ext, mode, legacy, nm>>

\* enable(permanent=True), after the try block around the deletion of Routed
EnableCheck(t) ==
    /\ At(t, "enable_check")
    /\ th' = IF ~interface_state_tracker[KILLSWITCH_CONN_NAME].EXISTS
             THEN Cont(t, <<UPDATE, CREATE_KS>> \o Rest(t))
             ELSE Cont(t, <<UPDATE, I("activate_connection", KILLSWITCH_CONN_NAME)>>
                          \o Rest(t))
    /\ gh' = Stepped(t)
    /\ UNCHANGED <<plat, routed, probe, interface_state_tracker, pristine, ext, mode, legacy, nm>>

----------------------------------------------------------------------------
(* The platform changed from outside (a user toggling or deleting a connection)
   while a public method runs; what the method sees of it, it sees at its next
   adapter call *)

AdapterCalls ==
    {"connectivity_check", "disable_connectivity_check", "verify_connectivity_check",
     "update_connection_status", "create_connection", "activate_connection",
     "deactivate_connection", "delete_connection"}

ExternalChange ==
    /\ ext < MaxExternal
    /\ \E t \in Callers : Running(t) /\ Top(t)[1] \in AdapterCalls
    /\ \E c \in Conns : \E v \in {"absent", "inactive", "active"} :
         /\ plat[c] # "absent"
         /\ v # plat[c]
         /\ plat' = [plat EXCEPT ![c] = v]
         /\ routed' = IF c = ROUTED_CONN_NAME /\ v = "absent" THEN NoRouted ELSE routed
    /\ ext' = ext + 1
    /\ gh' = [t \in Callers |-> [gh[t] EXCEPT !.disturbed = TRUE]]
    /\ pristine' = FALSE
    /\ UNCHANGED <<probe, interface_state_tracker, th, mode, legacy, nm>>

----------------------------------------------------------------------------
(* Specifications *)

Start(t) ==
    \/ Manage(t)
    \/ EnablePermanent(t)
    \/ EnableSoft(t)
    \/ Disable(t)

Step(t) ==
    \/ ConnectivityCheck(t)
    \/ DisableConnectivityCheck(t)
    \/ VerifyConnectivityCheck(t)
    \/ UpdateConnectionStatus(t)
    \/ CreateConnection(t)
    \/ ActivateConnection(t)
    \/ DeactivateConnection(t)
    \/ DeleteConnection(t)
    \/ CreateKillswitchConnection(t)
    \/ CreateRoutedConnection(t)
    \/ SetupPreConnectionKs(t)
    \/ PreRestoreBlocking(t)
    \/ PreRetry(t)
    \/ SetupPostConnectionKs(t)
    \/ PostRestoreRouted(t)
    \/ PostRetry(t)
    \/ SetupSoftConnectionCall(t)
    \/ EnableTry(t)
    \/ EnableCheck(t)

\* one caller, one public method at a time, on a platform others may change
Next ==
    \/ \E t \in {1} : Start(t) \/ Step(t)
    \/ ExternalChange

Spec == Init /\ [][Next]_vars

\* two callers (threads) sharing one NMKillSwitch: the first invokes one public
\* method, the second calls disable()
NextConc ==
    \/ th[1].result = "none" /\ Start(1)
    \/ th[2].result = "none" /\ Disable(2)
    \/ \E t \in Callers : Step(t)

SpecConc == Init /\ [][NextConc]_vars

\* one caller running PreConnection once, from every state of the platform and over
\* every text a server address can be, on a platform nobody else touches
NextPre ==
    \/ th[1].result = "none" /\ ManagePreConnection(1)
    \/ ConnectivityCheck(1)
    \/ DisableConnectivityCheck(1)
    \/ VerifyConnectivityCheck(1)
    \/ UpdateConnectionStatus(1)
    \/ CreateConnection(1)
    \/ ActivateConnection(1)
    \/ DeactivateConnection(1)
    \/ DeleteConnection(1)
    \/ CreateKillswitchConnection(1)
    \/ CreateRoutedConnection(1)
    \/ SetupPreConnectionKs(1)
    \/ PreRestoreBlocking(1)
    \/ PreRetry(1)

SpecPre == Init /\ [][NextPre]_vars

----------------------------------------------------------------------------
(* Mode controller, proton/vpn/killswitch/interface/killswitch.py.  mode holds
   the object's state and, of its last call: the operation, its argument, the
   state it started from, the hooks it invoked and how it ended; last is the most
   recent hook invoked by any call, raised tells whether a hook ever raised. *)

nmvars == <<plat, routed, probe, interface_state_tracker, th, gh, pristine, ext, nm>>

\* __update_state: the hook invoked before the state is stored
UpdateStateHookEager(newstate) ==
    IF newstate = OFF THEN <<"_disable">> ELSE <<"_enable">>
UpdateStateHook(newstate) ==
    IF newstate = OFF THEN <<"_disable">>
    ELSE IF newstate = ON_PERMANENT THEN <<"_enable">>
    ELSE <<>>

\* _on_disconnected
OnDisconnectedHookWhenOn(state) ==
    IF state # OFF THEN <<"_disable">> ELSE <<>>
OnDisconnectedHook(state) ==
    IF state = ON_NON_PERMANENT THEN <<"_disable">> ELSE <<>>

\* _on_connecting
OnConnectingHookEnabling(state) ==
    IF state # OFF THEN <<"_enable">> ELSE <<>>
OnConnectingHook(state) ==
    IF state = ON_NON_PERMANENT THEN <<"_enable">>
    ELSE IF state = ON_PERMANENT THEN <<"_update">>
    ELSE <<>>

\* connection_status_update: isinstance dispatch over Disconnected and Connecting
StatusHook(state, status) ==
    IF status = "Disconnected" THEN OnDisconnectedHook(state)
    ELSE IF status = "Connecting" THEN OnConnectingHook(state)
    ELSE <<>>

MostRecent(last, hooks) == IF hooks = <<>> THEN last ELSE hooks[Len(hooks)]

\* self.__update_state(newstate) as it would be if the state were stored first
UpdateStateCommitFirst(op, newstate) ==
    LET hooks == UpdateStateHook(newstate) IN
    \E r \in Outcomes(hooks) :
      mode' = [mode EXCEPT !.state = newstate,
                           !.op = op, !.arg = newstate, !.before = mode.state,
                           !.hooks = hooks, !.last = MostRecent(@, hooks),
                           !.result = r, !.raised = @ \/ r # "ok"]

\* self.__update_state(newstate): the state is stored only when the hook returned
UpdateState(op, newstate) ==
    LET hooks == UpdateStateHook(newstate) IN
    \E r \in Outcomes(hooks) :
      mode' = [mode EXCEPT !.state = IF r = "ok" THEN newstate ELSE @,
                           !.op = op, !.arg = newstate, !.before = mode.state,
                           !.hooks = hooks, !.last = MostRecent(@, hooks),
                           !.result = r, !.raised = @ \/ r # "ok"]

\* KillSwitch(state): TypeError for a state that is no member of the enum
KsInit ==
    /\ mode.state = "unconstructed"
    /\ \E state \in KillSwitchStateEnum \cup {RANDOM} :
         IF state \notin KillSwitchStateEnum
         THEN mode' = [mode EXCEPT !.op = "__init__", !.arg = state,
                                   !.before = mode.state, !.hooks = <<>>,
                                   !.result = "TypeError"]
         ELSE UpdateState("__init__", state)
    /\ UNCHANGED <<nmvars, legacy>>

TurnOff ==
    /\ mode.state # "unconstructed"
    /\ UpdateState("turn_off", OFF)
    /\ UNCHANGED <<nmvars, legacy>>

TurnOnNonPermanently ==
    /\ mode.state # "unconstructed"
    /\ UpdateState("turn_on_non_permanently", ON_NON_PERMANENT)
    /\ UNCHANGED <<nmvars, legacy>>

TurnOnPermanently ==
    /\ mode.state # "unconstructed"
    /\ UpdateState("turn_on_permanently", ON_PERMANENT)
    /\ UNCHANGED <<nmvars, legacy>>

\* connection_status_update(state)
ConnectionStatusUpdate ==
    /\ mode.state # "unconstructed"
    /\ \E status \in ConnectionStates :
         LET hooks == StatusHook(mode.state, status) IN
         \E r \in Outcomes(hooks) :
           mode' = [mode EXCEPT !.op = "connection_status_update", !.arg = status,
                                !.before = mode.state, !.hooks = hooks,
                                !.last = MostRecent(@, hooks), !.result = r,
                                !.raised = @ \/ r # "ok", !.status = status,
                                !.connecting = @ \/ status = "Connecting"]
    /\ UNCHANGED <<nmvars, legacy>>

----------------------------------------------------------------------------
(* Legacy controller, proton/vpn/killswitch/killswitch.py: on / off and the
   permanent modifier *)

\* connection_status_update: isinstance dispatch to the _on_* handlers
LegacyStatusHandler(status) ==
    CASE status = "Disconnected" -> <<"_on_disconnected">>
      [] status = "Connecting" -> <<"_on_connecting">>
      [] status = "Connected" -> <<"_on_connected">>
      [] status = "Error" -> <<"_on_error">>
      [] status = "Disconnecting" -> <<"_on_disconnecting">>

\* on(): the kill switch is set up at once when the modifier is already set
LegacyOnHook(permanent) == IF permanent THEN <<"_setup_killswitch">> ELSE <<>>

\* permanent setter
LegacyPermanentHook(state, newvalue) ==
    IF state # OFF
    THEN (IF newvalue THEN <<"_setup_killswitch">> ELSE <<"_setup_off">>)
    ELSE <<>>

LegacyCall(op, arg, hooks, r) ==
    [legacy EXCEPT !.op = op, !.arg = arg, !.before = legacy.state,
                   !.was_permanent = legacy.permanent, !.hooks = hooks,
                   !.result = r]

\* KillSwitch(state, permanent): both are stored as given, no hook is invoked
LegacyInit ==
    /\ legacy.state = "unconstructed"
    /\ \E state \in LegacyStateEnum : \E permanent \in BOOLEAN :
         legacy' = [LegacyCall("__init__", state, <<>>, "ok")
                      EXCEPT !.state = state, !.permanent = permanent]
    /\ UNCHANGED <<nmvars, mode>>

\* off()
LegacyOff ==
    /\ legacy.state # "unconstructed"
    /\ \E r \in HookOutcomes :
         legacy' = [LegacyCall("off", OFF, <<"_setup_off">>, r)
                      EXCEPT !.state = IF r = "ok" THEN OFF ELSE @]
    /\ UNCHANGED <<nmvars, mode>>

\* on()
LegacyOn ==
    /\ legacy.state # "unconstructed"
    /\ LET hooks == LegacyOnHook(legacy.permanent) IN
       \E r \in Outcomes(hooks) :
         legacy' = [LegacyCall("on", ON, hooks, r)
                      EXCEPT !.state = IF r = "ok" THEN ON ELSE @]
    /\ UNCHANGED <<nmvars, mode>>

\* killswitch.permanent = newvalue
LegacySetPermanent ==
    /\ legacy.state # "unconstructed"
    /\ \E newvalue \in BOOLEAN :
         LET hooks == LegacyPermanentHook(legacy.state, newvalue) IN
         \E r \in Outcomes(hooks) :
           legacy' = [LegacyCall("permanent", IF newvalue THEN "True" ELSE "False",
                                 hooks, r)
                        EXCEPT !.permanent = IF r = "ok" THEN newvalue ELSE @]
    /\ UNCHANGED <<nmvars, mode>>

\* connection_status_update(state)
LegacyConnectionStatusUpdate ==
    /\ legacy.state # "unconstructed"
    /\ \E status \in ConnectionStates : \E r \in HookOutcomes :
         legacy' = LegacyCall("connection_status_update", status,
                              LegacyStatusHandler(status), r)
    /\ UNCHANGED <<nmvars, mode>>

\* the two controllers, driven by an application through their public methods
InitMode ==
    /\ Init
    /\ \A c \in Conns : plat[c] = "absent"
    /\ probe = [available |-> TRUE, enabled |-> FALSE]

NextMode ==
    \/ KsInit
    \/ TurnOff
    \/ TurnOnNonPermanently
    \/ TurnOnPermanently
    \/ ConnectionStatusUpdate
    \/ LegacyInit
    \/ LegacyOff
    \/ LegacyOn
    \/ LegacySetPermanent
    \/ LegacyConnectionStatusUpdate

SpecMode == InitMode /\ [][NextMode]_vars

----------------------------------------------------------------------------
(* Tracker refresh over everything NetworkManager lists: the two constructs,
   connections of other owners, and queries that fail.  A listed connection is
   [id, active, settings_ok, props_ok]: its name, whether it is among the
   ActiveConnections, and whether GetSettings / GetAll answer for it. *)

ConnectionIds ==
    {KILLSWITCH_CONN_NAME, ROUTED_CONN_NAME, "pvpn-killswitch-backup", "Wired connection 1"}
Connections ==
    [id : ConnectionIds, active : BOOLEAN, settings_ok : BOOLEAN, props_ok : BOOLEAN]
RECURSIVE ListsUpTo(_)
ListsUpTo(n) ==
    IF n = 0 THEN {{}}
    ELSE LET shorter == ListsUpTo(n - 1)
         IN shorter \cup {l \cup {conn} : l \in shorter, conn \in Connections}
ConnectionLists == ListsUpTo(MaxConnections)

\* get_settings_from_connection(conn)["connection"]["id"], "None" on DBusException
SettingsId(conn) == IF conn.settings_ok THEN conn.id ELSE "None"

\* get_active_connection_properties(active_conn)["Id"], "None" on DBusException
ActiveId(conn) == IF conn.props_ok THEN conn.id ELSE "None"

\* _update_connection_status: all four flags are cleared, then set for every
\* listed name that is a key of the tracker
UpdatedTracker(tr, all_conns, active_conns) ==
    [c \in DOMAIN tr |->
       [EXISTS |-> \E conn \in all_conns : SettingsId(conn) = c,
        IS_RUNNING |-> \E conn \in active_conns : ActiveId(conn) = c]]

get_all_connections == nm.conns
get_all_active_connections == {conn \in nm.conns : conn.active}

\* _update_connection_status()
RefreshTracker ==
    /\ interface_state_tracker' =
         UpdatedTracker(interface_state_tracker, get_all_connections,
                        get_all_active_connections)
    /\ nm' = [nm EXCEPT !.refreshed = TRUE]
    /\ UNCHANGED <<plat, routed, probe, th, gh, pristine, ext, mode, legacy>>

\* NetworkManager's connections change between two refreshes
ConnectionsChange ==
    /\ \E l \in ConnectionLists : nm' = [conns |-> l, refreshed |-> FALSE]
    /\ UNCHANGED <<plat, routed, probe, interface_state_tracker, th, gh, pristine, ext,
                   mode, legacy>>

NextRefresh ==
    \/ RefreshTracker
    \/ ConnectionsChange

SpecRefresh == InitMode /\ [][NextRefresh]_vars

----------------------------------------------------------------------------
(* Vocabulary of the properties *)

Active(c) == plat[c] = "active"
ActiveCount == Cardinality({c \in Conns : Active(c)})
StartedWith(t, ks, r) ==
    gh[t].start[KILLSWITCH_CONN_NAME] = ks /\ gh[t].start[ROUTED_CONN_NAME] = r
StartedActive(t) == \E c \in Conns : gh[t].start[c] = "active"
ReturnedNormally(t) == th[t].result = "ok"
\* the action ran on a platform that nobody else touched meanwhile
Undisturbed(t) == ~gh[t].disturbed
Mutated(t) == gh[t].log # <<>>
Issued(t, op, c) == \E i \in 1 .. Len(gh[t].log) : gh[t].log[i] = <<op, c>>
ProbeErrors == {"AvailableConnectivityCheckError", "DisableConnectivityCheckError"}

----------------------------------------------------------------------------
\* C1: during a PreConnection or PostConnection run that starts with at least one
\* construct active, no state between two adapter calls and no final state has
\* zero active constructs (make-before-break).
C1_MakeBeforeBreak ==
    \A t \in {1} :
      ( /\ th[t].action \in {PRE_CONNECTION, POST_CONNECTION}
        /\ th[t].result \in {"running", "ok"}
        /\ StartedActive(t)
        /\ Undisturbed(t) )
      => ActiveCount >= 1

C3_PreConnectionGoal ==
    \A t \in {1} :
      (th[t].action = PRE_CONNECTION /\ ReturnedNormally(t) /\ Undisturbed(t))
      => (Active(ROUTED_CONN_NAME) /\ ~Active(KILLSWITCH_CONN_NAME))

\* C4: whenever PostConnection returns normally, Blocking is active and Routed is
\* not active.
C4_PostConnectionGoal ==
    \A t \in {1} :
      (th[t].action = POST_CONNECTION /\ ReturnedNormally(t) /\ Undisturbed(t))
      => (Active(KILLSWITCH_CONN_NAME) /\ ~Active(ROUTED_CONN_NAME))

\* C5: after PreConnection(s) returns normally, the active Routed construct was
\* built from the complement of s.
C5_RoutedBuiltForServer ==
    \A t \in {1} :
      ( /\ th[t].action = PRE_CONNECTION
        /\ ReturnedNormally(t)
        /\ Undisturbed(t)
        /\ Active(ROUTED_CONN_NAME) )
      => routed.server = th[t].server_ip

\* C6: in every action, however it is started, the connectivity-probe suppression
\* check has completed and been verified before the first construct-mutating call.
C6_ProbeBeforeMutation ==
    \A t \in {1} : Mutated(t) => gh[t].probeDone

\* C7: PreConnection and PostConnection make at most 5 convergence attempts; the
\* action that used them up ends with the exhaustion error (KillswitchError), and
\* no construct-mutating adapter call is issued after the 5th attempt.
AtCap(t) ==
    th[t].pre_attempts = MaxAttempts \/ th[t].post_attempts = MaxAttempts

CallBound == 4 + (MaxAttempts * 6) + 7
StepBound == 4 + (MaxAttempts * 10) + 10

C8_BoundedTermination ==
    \A t \in {1} :
      /\ gh[t].ncalls <= CallBound
      /\ gh[t].nsteps <= StepBound
      /\ (Running(t) => ENABLED Step(t))

C8_Witness ==
    /\ th[1].action = PRE_CONNECTION
    /\ ReturnedNormally(1)
    /\ th[1].pre_attempts = MaxAttempts - 1
    /\ th[1].try_route_addrs
    /\ Active(ROUTED_CONN_NAME)

\* C9: at most one reconciliation action executes at a time: a second caller's
\* adapter calls never fall between the adapter calls of an action in progress.
InProgress(t) == Running(t) /\ gh[t].ncalls > 0

C9_OneActionAtATime == ~(InProgress(1) /\ InProgress(2))

\* C10: PreConnection started from {Blocking active, Routed absent} returns in its
\* first attempt, having issued exactly create Routed then deactivate Blocking, and
\* ends in {Blocking inactive, Routed active}.
C10_PreHappyPath ==
    \A t \in {1} :
      ( /\ th[t].action = PRE_CONNECTION
        /\ ReturnedNormally(t)
        /\ Undisturbed(t)
        /\ StartedWith(t, "active", "absent") )
      => /\ th[t].pre_attempts = 0
         /\ gh[t].log = << <<"create", ROUTED_CONN_NAME>>,
                           <<"deactivate", KILLSWITCH_CONN_NAME>> >>
         /\ plat[KILLSWITCH_CONN_NAME] = "inactive"
         /\ Active(ROUTED_CONN_NAME)

\* C11: PreConnection started from {Blocking active, Routed active} stays within the
\* attempt cap: its first mutating call deletes Routed, Blocking is still active
\* once Routed is deleted, and it returns after one retry, through the happy path,
\* in {Blocking inactive, Routed active}.
C11_PreFromBothActive ==
    \A t \in {1} :
      ( /\ th[t].action = PRE_CONNECTION
        /\ StartedWith(t, "active", "active")
        /\ Undisturbed(t) )
      => /\ th[t].result # "KillswitchError"
         /\ (Mutated(t) => gh[t].log[1] = <<"delete", ROUTED_CONN_NAME>>)
         /\ ((Len(gh[t].log) = 1 /\ plat[ROUTED_CONN_NAME] = "absent")
               => Active(KILLSWITCH_CONN_NAME))
         /\ (ReturnedNormally(t)
               => /\ th[t].pre_attempts = 1
                  /\ plat[KILLSWITCH_CONN_NAME] = "inactive"
                  /\ Active(ROUTED_CONN_NAME))

\* C12: the soft-enable run of PostConnection (activating_soft_connection=True)
\* started from {Blocking inactive, Routed absent} returns normally with Blocking
\* active and issues no delete call for Routed.
C12_SoftEnableActivatesBlocking ==
    \A t \in {1} :
      ( /\ th[t].action = SOFT
        /\ th[t].activating_soft_connection
        /\ StartedWith(t, "inactive", "absent")
        /\ Undisturbed(t) )
      => /\ ~Issued(t, "delete", ROUTED_CONN_NAME)
         /\ (Ended(th[t].result)
               => ReturnedNormally(t) /\ Active(KILLSWITCH_CONN_NAME))

\* C13: Disable run when neither Blocking nor Routed exists issues no
\* construct-mutating adapter call, leaves both constructs as they were and raises
\* no error of its own: once the probe guard has passed it returns normally.
C13_DisableNothingToDelete ==
    \A t \in {1} :
      ( /\ th[t].action = DISABLE
        /\ StartedWith(t, "absent", "absent")
        /\ Undisturbed(t) )
      => /\ ~Mutated(t)
         /\ plat = gh[t].start
         /\ gh[t].failure = <<>>
         /\ th[t].result \in {"running", "ok"} \cup ProbeErrors
         /\ (gh[t].probeDone => th[t].result \in {"running", "ok"})

C13_Witness ==
    /\ th[1].action = DISABLE
    /\ StartedWith(1, "absent", "absent")
    /\ Undisturbed(1)
    /\ ReturnedNormally(1)
    /\ gh[1].ncalls >= 5

RunsGuard(t) ==
    th[t].result # "none" /\ ~(th[t].entry = "enable" /\ th[t].action = SOFT)
GuardReturned(t) ==
    /\ gh[t].ncalls >= 1
    /\ ~At(t, "disable_connectivity_check")
    /\ ~At(t, "verify_connectivity_check")
    /\ th[t].result \notin ProbeErrors

C15_ProbeGuard ==
    \A t \in {1} :
      RunsGuard(t) =>
        LET p == gh[t].startProbe
            w == gh[t].writes
            r == th[t].result
        IN /\ (~p.enabled => (w = <<>> /\ r \notin ProbeErrors))
           /\ ((p.enabled /\ ~p.available)
                 => /\ w = <<>>
                    /\ (gh[t].ncalls >= 1 => r = "AvailableConnectivityCheckError"))
           /\ ((p.enabled /\ p.available)
                 => /\ r # "AvailableConnectivityCheckError"
                    /\ (gh[t].ncalls = 1 => w = <<>>)
                    /\ (gh[t].ncalls >= 2 => w = <<FALSE>>)
                    /\ (gh[t].ncalls >= 3
                          => (r = "DisableConnectivityCheckError" <=> probe.enabled)))
           /\ (GuardReturned(t) => gh[t].probeDone)

C15_Witness ==
    /\ RunsGuard(1)
    /\ gh[1].startProbe.enabled
    /\ gh[1].startProbe.available
    /\ gh[1].writes = <<FALSE>>
    /\ probe.enabled
    /\ th[1].result = "DisableConnectivityCheckError"

\* C16: across any sequence of kill switch operations the only value ever written
\* to the connectivity-probe flag is False, and the flag never goes from disabled
\* to enabled: probing is not re-enabled, not even by Disable.
C16_ProbeNeverReenabled ==
    /\ [](\A t \in {1} : \A i \in 1 .. Len(gh[t].writes) : gh[t].writes[i] = FALSE)
    /\ [][probe'.enabled => probe.enabled]_vars

C16_Witness ==
    /\ th[1].action = DISABLE
    /\ ReturnedNormally(1)
    /\ gh[1].startProbe.enabled
    /\ gh[1].writes = <<FALSE>>
    /\ ~probe.enabled
    /\ Issued(1, "delete", KILLSWITCH_CONN_NAME)

\* C17: for every valid single-host server address a, the ranges computed for
\* Routed (0.0.0.0/0 with a excluded) are pairwise disjoint, none contains a, and
\* together with {a} they cover the whole address space; the same a always yields
\* the same ranges (in every command submitted and in a Routed built earlier).
SingleHost(s) == s.text = "cidr" /\ s.len = AddrBits
Planned(t) ==
    th[t].action = PRE_CONNECTION /\ SingleHost(th[t].server_ip) /\ th[t].route_data # <<>>

C17_ComplementOfServer ==
    \A t \in {1} :
      Planned(t) =>
        LET a == th[t].server_ip.base
            r == th[t].route_data
        IN /\ \A i, j \in 1 .. Len(r) :
                i # j => Addresses(r[i]) \cap Addresses(r[j]) = {}
           /\ \A i \in 1 .. Len(r) : a \notin Addresses(r[i])
           /\ UNION {Addresses(r[i]) : i \in 1 .. Len(r)} \cup {a} = Addresses(Whole)
           /\ \A i \in 1 .. Len(gh[t].submitted) : gh[t].submitted[i].ranges = r
           /\ ((plat[ROUTED_CONN_NAME] # "absent" /\ routed.server = th[t].server_ip)
                 => routed.ranges = r)

C17_Witness ==
    /\ Planned(1)
    /\ ReturnedNormally(1)
    /\ Len(gh[1].submitted) = 2
    /\ Active(ROUTED_CONN_NAME)
    /\ routed.server = th[1].server_ip
    /\ Len(routed.ranges) = AddrBits

\* C18: PreConnection given a server address that is malformed, or a range rather
\* than a single host, fails before any construct is created, activated,
\* deactivated or deleted, from every initial state: it issues no mutating call
\* and never returns normally.
C18_InvalidAddressFailsFast ==
    \A t \in {1} :
      (th[t].action = PRE_CONNECTION /\ ~SingleHost(th[t].server_ip))
      => /\ ~Mutated(t)
         /\ ~ReturnedNormally(t)

\* C19: Routed creation first submits the complement set as routes; it submits the
\* same set as addresses only after the routes attempt exited with code 2, and at
\* most once; any other failure of the routes attempt, and any failure of the
\* addresses attempt, raises CreateRoutedKillswitchError with no further attempt.
C19_RoutesThenAddresses ==
    \A t \in {1} :
      th[t].action = PRE_CONNECTION =>
        LET s == gh[t].submitted IN
          /\ Len(s) <= 2
          /\ (Len(s) >= 1 => s[1].strategy = "routes")
          /\ (Len(s) = 2
                => /\ s[2].strategy = "addresses"
                   /\ s[1].rc = 2
                   /\ s[2].ranges = s[1].ranges)
          /\ ((Len(s) >= 1 /\ s[1].rc \notin {0, 2})
                => (Len(s) = 1 /\ th[t].result = "CreateRoutedKillswitchError"))
          /\ ((Len(s) = 2 /\ s[2].rc # 0)
                => th[t].result = "CreateRoutedKillswitchError")

\* C20: when a create, activate, deactivate or delete adapter call fails during
\* PreConnection or PostConnection, the action ends at once with the typed error of
\* that operation: no retry, no further construct-mutating call.
TypedError(call) ==
    CASE call[1] = "create" -> CreateError(call[2])
      [] call[1] = "activate" -> "ActivateKillswitchError"
      [] call[1] = "deactivate" -> "DectivateKillswitchError"
      [] call[1] = "delete" -> "DeleteKillswitchError"

C20_AdapterErrorsPropagate ==
    \A t \in {1} :
      (th[t].action \in {PRE_CONNECTION, POST_CONNECTION} /\ gh[t].failure # <<>>)
      => th[t].result = TypedError(gh[t].failure)

\* C21: no adapter failure is swallowed silently: in every public operation a
\* failing create, activate, deactivate or delete reaches the caller as an error;
\* the operation never goes on, or returns, as if the call had succeeded.
C21_NoFailureSwallowed ==
    \A t \in {1} : gh[t].failure # <<>> => Failed(th[t].result)

\* C29: PostConnection without the soft-enable flag, started with Blocking not
\* active and Routed absent, fails at once with the Routed-missing error: it takes
\* no retry (post_attempts stays 0), issues no mutating call and leaves the
\* platform as it found it.
StartedForRoutedMissing(t) ==
    /\ th[t].action = POST_CONNECTION
    /\ ~th[t].activating_soft_connection
    /\ gh[t].start[KILLSWITCH_CONN_NAME] # "active"
    /\ gh[t].start[ROUTED_CONN_NAME] = "absent"
    /\ Undisturbed(t)

C29_PostRoutedMissing ==
    \A t \in {1} :
      StartedForRoutedMissing(t)
      => /\ ~Mutated(t)
         /\ plat = gh[t].start
         /\ th[t].post_attempts = 0
         /\ ~ReturnedNormally(t)
         /\ th[t].result # "KillswitchError"
         /\ (Ended(th[t].result) /\ GuardReturned(t) => th[t].result = "Exception")

C29_Witness ==
    /\ StartedForRoutedMissing(1)
    /\ StartedWith(1, "inactive", "absent")
    /\ th[1].result = "Exception"
    /\ plat = gh[1].start

\* C30: the corrective branch of PreConnection: from every start state that is
\* neither the happy-path state nor the converged state (Routed existing but
\* inactive included), one corrective iteration leaves {Blocking active, Routed
\* absent}, and the next attempt takes the happy path and returns normally.
StartedCorrective(t) ==
    /\ th[t].action = PRE_CONNECTION
    /\ ~PreHappyPath(Observed(gh[t].start))
    /\ ~PreConverged(Observed(gh[t].start))
    /\ Undisturbed(t)

C30_PreCorrectiveBranch ==
    \A t \in {1} :
      StartedCorrective(t)
      => /\ th[t].pre_attempts <= 1
         /\ ((th[t].pre_attempts = 1 /\ At(t, "setup_pre_connection_ks"))
               => Active(KILLSWITCH_CONN_NAME) /\ plat[ROUTED_CONN_NAME] = "absent")
         /\ ((Ended(th[t].result) /\ GuardReturned(t) /\ gh[t].failure = <<>>)
               => ReturnedNormally(t))

----------------------------------------------------------------------------
(* Mode controllers *)

Requests == {"__init__", "turn_off", "turn_on_non_permanently", "turn_on_permanently"}
VpnDisconnected == mode.status = "Disconnected" \/ ~mode.connecting

C24_NonPermanentOffWhileDisconnected ==
    (mode.state = ON_NON_PERMANENT /\ VpnDisconnected /\ ~mode.raised)
    => mode.last # "_enable"

\* C25: while the state is ON_PERMANENT no connection status update, whatever the
\* status and whatever came before it, invokes _disable.
C25_PermanentNeverDisabled ==
    (mode.op = "connection_status_update" /\ mode.before = ON_PERMANENT)
    => /\ mode.state = ON_PERMANENT
       /\ \A i \in 1 .. Len(mode.hooks) : mode.hooks[i] # "_disable"

C25_Witness ==
    /\ mode.op = "connection_status_update"
    /\ mode.arg = "Disconnected"
    /\ mode.before = ON_PERMANENT
    /\ mode.connecting
    /\ mode.last = "_update"

\* C26: a Connected status update received in the on, non-permanent state invokes
\* a backend hook and leaves the backend enabled: the most recent hook invoked is
\* the enabling one, even when no Connecting update came first.
C26_ConnectedEnables ==
    /\ ( /\ mode.op = "connection_status_update"
         /\ mode.arg = "Connected"
         /\ mode.before = ON_NON_PERMANENT )
       => (mode.hooks # <<>> /\ mode.last = "_enable")
    /\ ( /\ legacy.op = "connection_status_update"
         /\ legacy.arg = "Connected"
         /\ legacy.before = ON
         /\ ~legacy.was_permanent )
       => legacy.hooks = <<"_on_connected">>

\* C27: while the legacy component is off, setting permanent and a connection
\* status update with any connection state invoke no backend action.
C27_LegacyOffDisregards ==
    (legacy.op \in {"permanent", "connection_status_update"} /\ legacy.before = OFF)
    => legacy.hooks = <<>>

\* C28: after the legacy off() has returned, the state is OFF and the permanent
\* modifier is False, whatever it was before.
C28_LegacyOffResetsPermanent ==
    (legacy.op = "off" /\ legacy.result = "ok")
    => (legacy.state = OFF /\ ~legacy.permanent)

----------------------------------------------------------------------------
(* PostConnection, SoftEnable, the tracker and the frame of the guard *)

\* C31: PostConnection started from {Blocking existing but not active, Routed
\* active} returns normally in its first attempt, having issued exactly activate
\* Blocking and then delete Routed, and ends in {Blocking active, Routed absent}.
C31_PostHappyPath ==
    \A t \in {1} :
      ( /\ th[t].action = POST_CONNECTION
        /\ StartedWith(t, "inactive", "active")
        /\ Undisturbed(t) )
      => /\ th[t].post_attempts = 0
         /\ ((Ended(th[t].result) /\ GuardReturned(t))
               => /\ ReturnedNormally(t)
                  /\ gh[t].log = << <<"activate", KILLSWITCH_CONN_NAME>>,
                                    <<"delete", ROUTED_CONN_NAME>> >>
                  /\ Active(KILLSWITCH_CONN_NAME)
                  /\ plat[ROUTED_CONN_NAME] = "absent")

\* C32: SoftEnable creates Blocking if it does not exist and then runs
\* PostConnection with the soft flag; whenever it returns normally, from any
\* initial state of the two constructs, Blocking is active and Routed is not.
StartedSoftEnable(t) ==
    /\ th[t].entry = "enable"
    /\ th[t].action = SOFT
    /\ th[t].activating_soft_connection
    /\ Undisturbed(t)

C32_SoftEnableLocksDown ==
    \A t \in {1} :
      StartedSoftEnable(t)
      => /\ ((Mutated(t) /\ gh[t].start[KILLSWITCH_CONN_NAME] = "absent")
               => gh[t].log[1] = <<"create", KILLSWITCH_CONN_NAME>>)
         /\ (gh[t].start[KILLSWITCH_CONN_NAME] # "absent"
               => ~Issued(t, "create", KILLSWITCH_CONN_NAME))
         /\ (ReturnedNormally(t)
               => Active(KILLSWITCH_CONN_NAME) /\ ~Active(ROUTED_CONN_NAME))

\* C33: after every tracker refresh that returns normally the tracker holds
\* entries for exactly the two construct names; for each, EXISTS is true iff a
\* connection with exactly that name exists and IS_RUNNING is true iff an active
\* connection with exactly that name exists; a foreign connection whose name only
\* contains a construct name is never counted, and nothing of the previous
\* refresh survives.
C33_TrackerMirrorsPlatform ==
    nm.refreshed
    => /\ DOMAIN interface_state_tracker = Conns
       /\ \A c \in Conns :
            /\ interface_state_tracker[c].EXISTS
                 <=> \E conn \in nm.conns : conn.id = c
            /\ interface_state_tracker[c].IS_RUNNING
                 <=> \E conn \in nm.conns : conn.id = c /\ conn.active

\* C34: no state persists between actions: whatever the tracker left behind by
\* earlier actions, every branch decision and every mutation guard of an action
\* reads tracker entries that were refreshed within the action and equal the
\* platform, so the adapter calls an action issues and the state it ends in depend
\* on the platform state alone.
ReadByStep(t) ==
    LET op == Top(t)[1] IN
    IF op \in {"setup_pre_connection_ks", "setup_post_connection_ks"} THEN Conns
    ELSE IF op \in {"pre_restore_blocking", "create_killswitch_connection",
                    "enable_check"} THEN {KILLSWITCH_CONN_NAME}
    ELSE IF op = "post_restore_routed" THEN {ROUTED_CONN_NAME}
    ELSE IF op \in {"create_connection", "activate_connection",
                    "deactivate_connection", "delete_connection"} THEN {Top(t)[2]}
    ELSE {}

SuppressionFailed(t) ==
    /\ RunsGuard(t)
    /\ \/ /\ gh[t].startProbe.enabled
          /\ ~gh[t].startProbe.available
          /\ gh[t].ncalls >= 1
       \/ /\ gh[t].writes # <<>>
          /\ probe.enabled
          /\ gh[t].ncalls >= 3

C35_ProbeFailureLeavesPlatform ==
    \A t \in {1} :
      /\ SuppressionFailed(t)
           => /\ th[t].result \in ProbeErrors
              /\ ~Mutated(t)
              /\ (Undisturbed(t) => (plat = gh[t].start /\ routed = gh[t].startRouted))
      /\ (th[t].result \in ProbeErrors => SuppressionFailed(t))

C35_Witness ==
    /\ SuppressionFailed(1)
    /\ th[1].entry = "enable"
    /\ th[1].result = "DisableConnectivityCheckError"
    /\ StartedWith(1, "inactive", "active")
    /\ plat = gh[1].start

\* C36: an action that finds its target already reached is a no-op: PreConnection,
\* PostConnection, SoftEnable or Disable run a second time right after the same
\* action returned normally (from any initial state) returns normally again,
\* issues no construct-mutating adapter call and leaves the platform unchanged.
RunAgain(t) ==
    /\ gh[t].repeated
    /\ th[t].action \in {PRE_CONNECTION, POST_CONNECTION, SOFT, DISABLE}
    /\ Undisturbed(t)

C36_SecondRunIsNoOp ==
    \A t \in {1} :
      RunAgain(t)
      => /\ ~Mutated(t)
         /\ plat = gh[t].start
         /\ (Ended(th[t].result) => ReturnedNormally(t))

\* C37: enable(permanent=True) follows make-before-break: started from a state in
\* which Routed is active it never passes through a platform state with zero
\* active constructs (Blocking is created or activated before Routed is deleted),
\* and on normal return Blocking is active and Routed does not exist.
C37_EnablePermanentMakeBeforeBreak ==
    \A t \in {1} :
      ( /\ th[t].action = "enable_permanent"
        /\ gh[t].start[ROUTED_CONN_NAME] = "active"
        /\ Undisturbed(t) )
      => /\ (th[t].result \in {"running", "ok"} => ActiveCount >= 1)
         /\ (plat[ROUTED_CONN_NAME] = "absent" => Active(KILLSWITCH_CONN_NAME))
         /\ (ReturnedNormally(t)
               => Active(KILLSWITCH_CONN_NAME) /\ plat[ROUTED_CONN_NAME] = "absent")

\* C38: is_active() reports the real status of the kill switch: after any sequence
\* of completed operations (enable, disable, PreConnection, PostConnection,
\* SoftEnable) it returns True iff Blocking exists and is active on the platform.
C38_IsActiveReportsPlatform ==
    \A t \in {1} :
      (ReturnedNormally(t) /\ Undisturbed(t))
      => (is_active <=> Active(KILLSWITCH_CONN_NAME))

\* C39: the mode controller commits a state change only after the backend hook
\* succeeded: when _disable (turn_off, or the constructor with OFF) or _enable
\* (turn_on_permanently, or the constructor with ON_PERMANENT) raises, the error
\* reaches the caller and the state keeps the value it had before the call; the
\* state is never moved to a mode whose backend action failed.
HookFailed ==
    /\ mode.op \in Requests
    /\ mode.arg \in KillSwitchStateEnum
    /\ mode.result # "ok"

C39_StateCommittedAfterHook ==
    /\ HookFailed
         => /\ mode.result = "KillSwitchError"
            /\ mode.hooks # <<>>
            /\ mode.state = mode.before
            /\ (mode.arg # mode.before => mode.state # mode.arg)
    /\ (mode.op \in Requests /\ mode.state # mode.before)
         => (mode.result = "ok" /\ mode.state = mode.arg)

C39_Witness ==
    /\ HookFailed
    /\ mode.op = "turn_on_permanently"
    /\ mode.hooks = <<"_enable">>
    /\ mode.before = OFF
    /\ mode.state = OFF

====
